---- MODULE Spec2Model ----
(***************************************************************************)
(* Subscription lifecycle, payment confirmation and access gating of the   *)
(* service_mgt backend (index app).                                        *)
(*                                                                         *)
(* Time.  A timestamp is a number of half hours since the start of day 1   *)
(* of the proleptic Gregorian calendar, in UTC (timezone.now() is an aware *)
(* UTC datetime because USE_TZ = True).  A date is the ordinal of the day, *)
(* as datetime.date.toordinal().  date.today() is the date of the server's *)
(* local zone (TIME_ZONE = 'Asia/Kolkata', UTC+05:30), while               *)
(* aware_datetime.date() and timezone.now().date() are UTC dates.          *)
(*                                                                         *)
(* Storage.  The database is SQLite (settings.DATABASES) in its default    *)
(* rollback-journal mode.  A connection inside transaction.atomic() takes  *)
(* the SHARED lock at its first SELECT and keeps it until COMMIT/ROLLBACK; *)
(* its first write takes the RESERVED lock, which fails at once with       *)
(* "database is locked" when another connection holds it; COMMIT needs     *)
(* every other SHARED lock to be gone and otherwise times out.  Writes of  *)
(* an open transaction are invisible to the other connections until the    *)
(* commit.                                                                 *)
(***************************************************************************)
EXTENDS Integers, Sequences, FiniteSets, TLC

VARIABLES
    now,        \* the clock: current timestamp (half hours, UTC)
    ticks,      \* how many times the clock advanced
    centers,    \* ServiceCenter rows, by tenant
    subs,       \* Subscription rows, as the set of their (center, status)
    txns,       \* PaymentTransaction rows (sequence; index = primary key)
    history,    \* SubscriptionHistory rows (sequence)
    conn,       \* the request handlers in flight, one per connection
    shared,     \* connections holding the SQLite SHARED lock
    reserved,   \* the connection holding the SQLite RESERVED lock, or None
    otps,       \* PasswordResetOTP rows (sequence; index = primary key)
    passwords,  \* the password of each CustomUser, by email
    resp        \* the response sent by the last step, if it sent one

vars == <<now, ticks, centers, subs, txns, history, conn, shared, reserved,
          otps, passwords, resp>>

\* null of a nullable column (null=True) and Python's None
None == 0

\* the emails of the CustomUser rows, an email of no user
Emails == {"a@x", "b@x"}
NoSuchEmail == "z@x"

\* the codes generate_otp() returns, the passwords a request asks for
OtpCodes == {"111111", "222222"}
NewPasswords == {"p1", "p2"}

-----------------------------------------------------------------------------
(* Bounds of the model *)

\* PasswordResetOTP rows ever created
MaxOtps == 2

MaxTicks == 1
MaxTxns == 2

\* the service centers, those registered at the start, and the connections
\* (worker threads) of the server
Tenants == {"c1", "c2"}
Registered == {"c1"}
Conns == {1, 2}

-----------------------------------------------------------------------------
(* Calendar: datetime.date and dateutil.relativedelta *)

HalfHoursPerDay == 24 * 2
\* Asia/Kolkata is UTC+05:30
TzOffset == (5 * 2) + 1

IsLeap(y) == (y % 4 = 0) /\ ((y % 100 # 0) \/ (y % 400 = 0))

DaysInMonth(y, m) ==
    IF m = 2 THEN (IF IsLeap(y) THEN 29 ELSE 28)
    ELSE IF m \in {4, 6, 9, 11} THEN 30 ELSE 31

DaysBeforeYear(y) ==
    (365 * (y - 1)) + ((y - 1) \div 4) - ((y - 1) \div 100) + ((y - 1) \div 400)

RECURSIVE DaysBeforeMonth(_, _)
DaysBeforeMonth(y, m) ==
    IF m = 1 THEN 0 ELSE DaysBeforeMonth(y, m - 1) + DaysInMonth(y, m - 1)

\* date(y, m, d).toordinal()
ToOrdinal(y, m, d) == DaysBeforeYear(y) + DaysBeforeMonth(y, m) + d

Years == 2020 .. 2035

\* date.fromordinal(n) as a record
FromOrdinal(n) ==
    LET y == CHOOSE yy \in Years :
                 DaysBeforeYear(yy) < n /\ n <= DaysBeforeYear(yy + 1)
        r == n - DaysBeforeYear(y)
        m == CHOOSE mm \in 1 .. 12 :
                 DaysBeforeMonth(y, mm) < r
                 /\ r <= DaysBeforeMonth(y, mm) + DaysInMonth(y, mm)
    IN  [year |-> y, month |-> m, day |-> r - DaysBeforeMonth(y, m)]

Min(a, b) == IF a <= b THEN a ELSE b

\* an addition of months that lets the day run over into the next month
AddMonths_m(d, n) ==
    LET c == FromOrdinal(d)
        t == (c.month - 1) + n
        y == c.year + (t \div 12)
        m == (t % 12) + 1
    IN  ToOrdinal(y, m, 1) + (c.day - 1)

\* d + relativedelta(months=n): the month moves by n, the day of month is
\* kept when the target month has it and clamped to its last day otherwise
AddMonths(d, n) ==
    LET c == FromOrdinal(d)
        t == (c.month - 1) + n
        y == c.year + (t \div 12)
        m == (t % 12) + 1
    IN  ToOrdinal(y, m, Min(c.day, DaysInMonth(y, m)))

\* aware_datetime.date(): the UTC date of a timestamp
UtcDate(ts) == ts \div HalfHoursPerDay

\* date.today(): the server's local date at the timestamp
LocalDate(ts) == (ts + TzOffset) \div HalfHoursPerDay

\* the timestamp of h o'clock UTC on a date
At(d, h) == (d * HalfHoursPerDay) + (2 * h)

\* timedelta(days=n) on a timestamp
PlusDays(ts, n) == ts + (n * HalfHoursPerDay)

-----------------------------------------------------------------------------
(* Rows *)

NoCenter ==
    [exists |-> FALSE, is_active |-> FALSE, trial_ends_at |-> None,
     subscription_started_at |-> None, subscription_valid_until |-> None]

TrialDays == 15

-----------------------------------------------------------------------------
(* ServiceCenter methods *)

is_trial_active(sc, t) ==
    IF sc.trial_ends_at # None THEN t < sc.trial_ends_at ELSE FALSE

\* a subscription that ends when its last day begins
is_subscription_active_m(sc, t) ==
    IF sc.subscription_valid_until = None THEN FALSE
    ELSE LocalDate(t) < sc.subscription_valid_until

is_subscription_active(sc, t) ==
    IF sc.subscription_valid_until = None THEN FALSE
    ELSE LocalDate(t) <= sc.subscription_valid_until

\* an access test whose is_active flag guards the trial only
can_access_service_m(sc, t) ==
    (sc.is_active /\ is_trial_active(sc, t)) \/ is_subscription_active(sc, t)

can_access_service(sc, t) ==
    sc.is_active /\ (is_trial_active(sc, t) \/ is_subscription_active(sc, t))

\* self.get_subscription_status() of the instance sc of tenant c at time t;
\* status_text is its wording without the number, and days_remaining is
\* meaningful when has_days (it is None otherwise)
get_subscription_status(sc, c, t) ==
    LET base == [op |-> "get_subscription_status", tenant |-> c,
                 can_access |-> can_access_service(sc, t),
                 is_trial_active |-> is_trial_active(sc, t),
                 is_subscription_active |-> is_subscription_active(sc, t),
                 trial_ends_at |-> sc.trial_ends_at,
                 subscription_ends_at |-> sc.subscription_valid_until,
                 has_days |-> FALSE, days_remaining |-> 0,
                 status_text |-> "Inactive"]
    IN  IF is_subscription_active(sc, t) THEN
            [base EXCEPT !.has_days = TRUE,
                         !.days_remaining =
                             sc.subscription_valid_until - LocalDate(t),
                         !.status_text = "Active (n days remaining)"]
        ELSE IF is_trial_active(sc, t) THEN
            [base EXCEPT !.has_days = TRUE,
                         !.days_remaining =
                             UtcDate(sc.trial_ends_at) - LocalDate(t),
                         !.status_text = "Trial (n days remaining)"]
        ELSE IF ~sc.is_active THEN
            [base EXCEPT !.status_text = "Account Disabled"]
        ELSE [base EXCEPT !.status_text = "Subscription Expired"]

\* timezone.datetime.combine(d, min.time()).replace(tzinfo=current timezone):
\* the timestamp of local midnight at the start of date d
LocalMidnight(d) == (d * HalfHoursPerDay) - TzOffset

\* a start date that looks at the trial before the subscription
ExtensionStart_m(sc, t) ==
    IF is_trial_active(sc, t) THEN UtcDate(sc.trial_ends_at)
    ELSE IF is_subscription_active(sc, t) THEN sc.subscription_valid_until
    ELSE LocalDate(t)

\* the start date chosen by extend_subscription
ExtensionStart(sc, t) ==
    IF is_subscription_active(sc, t) THEN sc.subscription_valid_until
    ELSE IF is_trial_active(sc, t) THEN UtcDate(sc.trial_ends_at)
    ELSE LocalDate(t)

\* an extension that also enables the service center
extend_subscription_m(sc, c, t, months, ptxn) ==
    LET start_date == ExtensionStart(sc, t)
        new_end_date == AddMonths(start_date, months)
    IN  [center |-> [sc EXCEPT
                        !.is_active = TRUE,
                        !.subscription_valid_until = new_end_date,
                        !.subscription_started_at =
                            IF sc.subscription_started_at = None THEN t
                            ELSE sc.subscription_started_at],
         entry |-> [service_center |-> c,
                    payment_transaction |-> ptxn,
                    started_at |-> t,
                    expires_at |-> LocalMidnight(new_end_date),
                    previous_expires_at |->
                        IF start_date # LocalDate(t)
                        THEN LocalMidnight(start_date) ELSE None,
                    is_extension |-> TRUE],
         start_date |-> start_date,
         new_end_date |-> new_end_date]

\* self.extend_subscription(months, payment_transaction) called at time t on
\* the in-memory instance sc of tenant c: the instance as saved, the
\* SubscriptionHistory row created and the date returned
extend_subscription(sc, c, t, months, ptxn) ==
    LET start_date == ExtensionStart(sc, t)
        new_end_date == AddMonths(start_date, months)
    IN  [center |-> [sc EXCEPT
                        !.subscription_valid_until = new_end_date,
                        !.subscription_started_at =
                            IF sc.subscription_started_at = None THEN t
                            ELSE sc.subscription_started_at],
         entry |-> [service_center |-> c,
                    payment_transaction |-> ptxn,
                    started_at |-> t,
                    expires_at |-> LocalMidnight(new_end_date),
                    previous_expires_at |->
                        IF start_date # LocalDate(t)
                        THEN LocalMidnight(start_date) ELSE None,
                    is_extension |-> TRUE],
         start_date |-> start_date,
         new_end_date |-> new_end_date]

-----------------------------------------------------------------------------
(* Connections and the SQLite locks *)

NoEntry ==
    [service_center |-> "none", payment_transaction |-> None,
     started_at |-> None, expires_at |-> None, previous_expires_at |-> None,
     is_extension |-> FALSE]

IdleConn ==
    [op |-> "idle", order |-> None, tenant |-> "none", txn |-> None, at |-> None,
     sc |-> NoCenter, entry |-> NoEntry, new_end_date |-> None]

NoResp == [op |-> "none"]

\* a request is served by the first idle connection
Accepts(k) ==
    /\ conn[k].op = "idle"
    /\ \A j \in Conns : j < k => conn[j].op # "idle"

\* no other connection holds a lock: a write in autocommit mode, or the
\* COMMIT of connection k, can take the EXCLUSIVE lock (k = None: a handler
\* that holds no lock)
LocksFree(k) == reserved \in {None, k} /\ shared \subseteq {k}

-----------------------------------------------------------------------------
(* Registration, and the initial state *)

\* ServiceCenter.save() of a new instance at time t
NewCenter(t) ==
    [exists |-> TRUE, is_active |-> TRUE,
     trial_ends_at |-> PlusDays(t, TrialDays),
     subscription_started_at |-> None, subscription_valid_until |-> None]

\* the trial Subscription row of ServiceCenterRegistrationSerializer.create
TrialSubscription(c) == [service_center |-> c, status |-> "trial"]

\* the clock starts on 2025-01-10 at 18:00 UTC (23:30 in Asia/Kolkata)
Start == At(ToOrdinal(2025, 1, 10), 18)

Init ==
    /\ now = Start
    /\ ticks = 0
    /\ centers = [c \in Tenants |->
                     IF c \in Registered THEN NewCenter(Start) ELSE NoCenter]
    /\ subs = {TrialSubscription(c) : c \in Registered}
    /\ txns = << >>
    /\ history = << >>
    /\ conn = [k \in Conns |-> IdleConn]
    /\ shared = {}
    /\ reserved = None
    /\ otps = << >>
    /\ passwords = [e \in Emails |-> "p0"]
    /\ resp = NoResp

\* the clock advances by the length of a trial and an hour: the trial is
\* over, and the date in Asia/Kolkata is a day ahead of the date in UTC
TickSteps == {(TrialDays * HalfHoursPerDay) + 2}

\* A request lasts far less than the unit of the clock (the busy timeout of
\* SQLite alone is 5 seconds), and a handler reads the clock at one step
\* only: the clock advances between requests.
Tick ==
    /\ ticks < MaxTicks
    /\ \A k \in Conns : conn[k].op = "idle"
    /\ \E d \in TickSteps : now' = now + d
    /\ ticks' = ticks + 1
    /\ resp' = NoResp
    /\ UNCHANGED <<centers, subs, txns, history, conn, shared, reserved,
                   otps, passwords>>

-----------------------------------------------------------------------------
(* Payment orders *)

\* create_payment_order: the gateway issues a fresh order id (here the
\* primary key of the new row) and a pending PaymentTransaction is inserted
create_payment_order(c) ==
    /\ centers[c].exists
    /\ Len(txns) < MaxTxns
    /\ LocksFree(None)
    /\ txns' = Append(txns, [service_center |-> c, status |-> "pending",
                             razorpay_order_id |-> Len(txns) + 1,
                             razorpay_payment_id |-> None,
                             completed_at |-> None])
    /\ resp' = NoResp
    /\ UNCHANGED <<now, ticks, centers, subs, history, conn, shared, reserved,
                   otps, passwords>>

-----------------------------------------------------------------------------
(* verify_payment_and_extend *)

\* the order ids a request can carry: those issued, and one never issued
Orders == 1 .. MaxTxns + 1

\* a lookup by order id alone, whatever the status of the row
PendingWithOrder_m(o) ==
    {i \in 1 .. Len(txns) : txns[i].razorpay_order_id = o}

\* the rows matched by get_object_or_404(PaymentTransaction,
\* razorpay_order_id=o, status='pending')
PendingWithOrder(o) ==
    {i \in 1 .. Len(txns) :
        txns[i].razorpay_order_id = o /\ txns[i].status = "pending"}

\* the responses of verify_payment_and_extend to a request that carried the
\* order id o: status code, message, str(e) of the exception handled, and
\* new_subscription_end_date
VerifyOk(o, d) ==
    [op |-> "verify", order |-> o, code |-> 200,
     message |-> "Payment verified and subscription extended successfully",
     error |-> "none", value |-> d]

VerifyNotFound(o) ==
    [op |-> "verify", order |-> o, code |-> 404,
     message |-> "Transaction not found or already processed",
     error |-> "none", value |-> None]

VerifyFailed(o, e) ==
    [op |-> "verify", order |-> o, code |-> 500,
     message |-> "Payment verification failed", error |-> e, value |-> None]

\* the response to the Http404 raised by get_object_or_404: Http404 is not
\* PaymentTransaction.DoesNotExist, so `except Exception` handles it
LookupFailure(o) ==
    VerifyFailed(o, "No PaymentTransaction matches the given query.")

\* the pending row is found: the handler holds it, and the SHARED lock
verify_lookup(k, o) ==
    /\ Accepts(k)
    /\ PendingWithOrder(o) # {}
    /\ conn' = [conn EXCEPT ![k] =
                   [IdleConn EXCEPT !.op = "verify", !.order = o,
                                    !.txn = CHOOSE i \in PendingWithOrder(o) : TRUE]]
    /\ shared' = shared \cup {k}
    /\ resp' = NoResp
    /\ UNCHANGED <<now, ticks, centers, subs, txns, history, reserved,
                   otps, passwords>>

\* no pending row has the order id
verify_not_found(k, o) ==
    /\ Accepts(k)
    /\ PendingWithOrder(o) = {}
    /\ resp' = LookupFailure(o)
    /\ UNCHANGED <<now, ticks, centers, subs, txns, history, conn, shared, reserved,
                   otps, passwords>>

\* payment_transaction.save() with status completed takes the RESERVED lock
\* (the first write of the atomic block); then payment_transaction's
\* service_center is loaded and extended by 12 months.  Nothing is visible
\* to the other connections before the commit.
verify_extend(k) ==
    /\ conn[k].op = "verify"
    /\ reserved = None
    /\ reserved' = k
    /\ LET c == txns[conn[k].txn].service_center
           e == extend_subscription(centers[c], c, now, 12, conn[k].txn)
       IN  conn' = [conn EXCEPT ![k].op = "verify_commit", ![k].at = now,
                                ![k].tenant = c,
                                ![k].sc = e.center, ![k].entry = e.entry,
                                ![k].new_end_date = e.new_end_date]
    /\ resp' = NoResp
    /\ UNCHANGED <<now, ticks, centers, subs, txns, history, shared,
                   otps, passwords>>

\* a save of the completed transaction that outlives the failure of its block
TxnsAfterRollback_m(k) ==
    [txns EXCEPT ![conn[k].txn].status = "completed"]

\* the PaymentTransaction table after the atomic block of connection k is
\* rolled back
TxnsAfterRollback(k) == txns

\* a completion that leaves completed_at unset
TxnsAfterCommit_m(k) ==
    [txns EXCEPT ![conn[k].txn] =
        [@ EXCEPT !.status = "completed", !.razorpay_payment_id = conn[k].txn]]

\* the PaymentTransaction table after the atomic block of connection k commits
TxnsAfterCommit(k) ==
    [txns EXCEPT ![conn[k].txn] =
        [@ EXCEPT !.status = "completed", !.razorpay_payment_id = conn[k].txn,
                  !.completed_at = conn[k].at]]

\* payment_transaction.save() while another connection holds the RESERVED
\* lock: OperationalError "database is locked", the block is rolled back
verify_locked(k) ==
    /\ conn[k].op = "verify"
    /\ reserved # None
    /\ shared' = shared \ {k}
    /\ conn' = [conn EXCEPT ![k] = IdleConn]
    /\ resp' = VerifyFailed(conn[k].order, "database is locked")
    /\ txns' = TxnsAfterRollback(k)
    /\ UNCHANGED <<now, ticks, centers, subs, history, reserved,
                   otps, passwords>>

\* a COMMIT that loses the SubscriptionHistory row of the block
verify_commit_m(k) ==
    /\ conn[k].op = "verify_commit"
    /\ LocksFree(k)
    /\ txns' = TxnsAfterCommit(k)
    /\ centers' = [centers EXCEPT ![conn[k].tenant] = conn[k].sc]
    /\ shared' = shared \ {k}
    /\ reserved' = None
    /\ conn' = [conn EXCEPT ![k] = IdleConn]
    /\ resp' = VerifyOk(conn[k].order, conn[k].new_end_date)
    /\ UNCHANGED <<now, ticks, subs, history,
                   otps, passwords>>

\* the atomic block ends: COMMIT
verify_commit(k) ==
    /\ conn[k].op = "verify_commit"
    /\ LocksFree(k)
    /\ txns' = TxnsAfterCommit(k)
    /\ centers' = [centers EXCEPT ![conn[k].tenant] = conn[k].sc]
    /\ history' = Append(history, conn[k].entry)
    /\ shared' = shared \ {k}
    /\ reserved' = None
    /\ conn' = [conn EXCEPT ![k] = IdleConn]
    /\ resp' = VerifyOk(conn[k].order, conn[k].new_end_date)
    /\ UNCHANGED <<now, ticks, subs,
                   otps, passwords>>

\* COMMIT while another connection keeps its SHARED lock: the busy timeout
\* expires, "database is locked", the block is rolled back
verify_commit_timeout(k) ==
    /\ conn[k].op = "verify_commit"
    /\ ~LocksFree(k)
    /\ txns' = TxnsAfterRollback(k)
    /\ shared' = shared \ {k}
    /\ reserved' = None
    /\ conn' = [conn EXCEPT ![k] = IdleConn]
    /\ resp' = VerifyFailed(conn[k].order, "database is locked")
    /\ UNCHANGED <<now, ticks, centers, subs, history,
                   otps, passwords>>

verify_payment_and_extend(k) ==
    \/ \E o \in Orders : verify_lookup(k, o)
    \/ \E o \in Orders : verify_not_found(k, o)
    \/ verify_extend(k)
    \/ verify_locked(k)
    \/ verify_commit(k)
    \/ verify_commit_timeout(k)

-----------------------------------------------------------------------------
(* activate_subscription *)

\* the duration_months a request can carry (12 when absent)
Durations == {0, 12}

ActivateOk(d) ==
    [op |-> "activate", code |-> 200,
     message |-> "Subscription activated successfully", value |-> d]

\* the instance saved by activate_subscription at time t, from the instance
\* sc it loaded
Activated(sc, t, months) ==
    [sc EXCEPT !.subscription_started_at = t,
               !.subscription_valid_until = UtcDate(t) + (months * 30)]

\* the Subscription table after activate_subscription for center c: an
\* active row is created, then the trial rows of c are marked expired
SubsAfterActivate(c) ==
    LET created == subs \cup {[service_center |-> c, status |-> "active"]}
    IN  {IF r.service_center = c /\ r.status = "trial"
         THEN [r EXCEPT !.status = "expired"] ELSE r : r \in created}

\* activate_subscription for center c (the caller's own center, or the one
\* an admin names); the load of the center and the atomic block that writes
\* it back are taken as one step
activate_subscription(c, months) ==
    /\ centers[c].exists
    /\ LocksFree(None)
    /\ centers' = [centers EXCEPT ![c] = Activated(centers[c], now, months)]
    /\ subs' = SubsAfterActivate(c)
    /\ resp' = ActivateOk(centers'[c].subscription_valid_until)
    /\ UNCHANGED <<now, ticks, txns, history, conn, shared, reserved,
                   otps, passwords>>

-----------------------------------------------------------------------------
(* disable_service_center and enable_service_center *)

SetActiveOk(op, c) ==
    [op |-> op, code |-> 200, message |-> c, value |-> None]

\* service_center.is_active = False; service_center.save(); the load of the
\* center and the save that writes the row back are taken as one step, made
\* when no other connection holds a lock
disable_service_center(c) ==
    /\ centers[c].exists
    /\ LocksFree(None)
    /\ centers' = [centers EXCEPT ![c].is_active = FALSE]
    /\ resp' = SetActiveOk("disable", c)
    /\ UNCHANGED <<now, ticks, subs, txns, history, conn, shared, reserved,
                   otps, passwords>>

\* service_center.is_active = True; service_center.save(), as one step
enable_service_center(c) ==
    /\ centers[c].exists
    /\ LocksFree(None)
    /\ centers' = [centers EXCEPT ![c].is_active = TRUE]
    /\ resp' = SetActiveOk("enable", c)
    /\ UNCHANGED <<now, ticks, subs, txns, history, conn, shared, reserved,
                   otps, passwords>>

-----------------------------------------------------------------------------
(* The access gates *)

\* the users: a platform admin without a service center and one attached to
\* each service center, the center admin and a staff member of each service
\* center, and a visitor who is not authenticated
Users ==
    {[name |-> "root", authenticated |-> TRUE, role |-> "admin",
      service_center |-> "none"],
     [name |-> "visitor", authenticated |-> FALSE, role |-> "none",
      service_center |-> "none"]}
    \cup {[name |-> "root", authenticated |-> TRUE, role |-> "admin",
           service_center |-> c] : c \in Tenants}
    \cup {[name |-> "owner", authenticated |-> TRUE, role |-> "centeradmin",
           service_center |-> c] : c \in Tenants}
    \cup {[name |-> "member", authenticated |-> TRUE, role |-> "staff",
           service_center |-> c] : c \in Tenants}

\* request paths, by what process_request tests: outside /subscription/, one
\* of EXEMPT_URLS, one of PAYMENT_REQUIRED_URLS, any other
Paths == {"outside", "exempt", "gated", "other"}

\* a test of the foreign key that does not look at the row
HasCenter_m(u) ==
    u.service_center \in Tenants

\* user.service_center is set (the row exists)
HasCenter(u) ==
    u.service_center \in Tenants /\ centers[u.service_center].exists

\* the response of the middleware when it lets the request through (None)
PassThrough(u, path) ==
    [op |-> "process_request", user |-> u, path |-> path, code |-> None,
     error_code |-> "none", requires_payment |-> FALSE]

\* a middleware that offers payment to whoever is not the center admin
process_request_m(u, path, t) ==
    IF path = "outside" THEN PassThrough(u, path)
    ELSE IF path = "exempt" THEN PassThrough(u, path)
    ELSE IF ~u.authenticated THEN PassThrough(u, path)
    ELSE IF u.role = "admin" THEN PassThrough(u, path)
    ELSE IF path # "gated" THEN PassThrough(u, path)
    ELSE IF ~HasCenter(u) THEN
        [PassThrough(u, path) EXCEPT !.code = 403,
                                     !.error_code = "NO_SERVICE_CENTER"]
    ELSE IF ~can_access_service(centers[u.service_center], t) THEN
        IF u.role # "centeradmin" THEN
            [PassThrough(u, path) EXCEPT !.code = 402,
                                         !.error_code = "SUBSCRIPTION_EXPIRED",
                                         !.requires_payment = TRUE]
        ELSE
            [PassThrough(u, path) EXCEPT !.code = 403,
                                         !.error_code = "ACCESS_DENIED"]
    ELSE PassThrough(u, path)

\* SubscriptionAccessMiddleware.process_request at time t
process_request(u, path, t) ==
    IF path = "outside" THEN PassThrough(u, path)
    ELSE IF path = "exempt" THEN PassThrough(u, path)
    ELSE IF ~u.authenticated THEN PassThrough(u, path)
    ELSE IF u.role = "admin" THEN PassThrough(u, path)
    ELSE IF path # "gated" THEN PassThrough(u, path)
    ELSE IF ~HasCenter(u) THEN
        [PassThrough(u, path) EXCEPT !.code = 403,
                                     !.error_code = "NO_SERVICE_CENTER"]
    ELSE IF ~can_access_service(centers[u.service_center], t) THEN
        IF u.role = "centeradmin" THEN
            [PassThrough(u, path) EXCEPT !.code = 402,
                                         !.error_code = "SUBSCRIPTION_EXPIRED",
                                         !.requires_payment = TRUE]
        ELSE
            [PassThrough(u, path) EXCEPT !.code = 403,
                                         !.error_code = "ACCESS_DENIED"]
    ELSE PassThrough(u, path)

\* a check that offers payment to every user of a center without access
check_access_permission_m(u, t) ==
    IF u.role = "admin" THEN
        [op |-> "check_access_permission", user |-> u, code |-> 200,
         can_access |-> TRUE, message |-> "Admin access granted",
         redirect_to_payment |-> FALSE]
    ELSE IF ~HasCenter(u) THEN
        [op |-> "check_access_permission", user |-> u, code |-> 200,
         can_access |-> FALSE,
         message |-> "User not associated with any service center",
         redirect_to_payment |-> FALSE]
    ELSE LET can_access == can_access_service(centers[u.service_center], t)
         IN  [op |-> "check_access_permission", user |-> u, code |-> 200,
              can_access |-> can_access,
              message |->
                  IF can_access THEN "Access granted"
                  ELSE "Subscription expired. Please renew to continue.",
              redirect_to_payment |-> ~can_access]

\* check_access_permission at time t, for an authenticated user
check_access_permission(u, t) ==
    IF u.role = "admin" THEN
        [op |-> "check_access_permission", user |-> u, code |-> 200,
         can_access |-> TRUE, message |-> "Admin access granted",
         redirect_to_payment |-> FALSE]
    ELSE IF ~HasCenter(u) THEN
        [op |-> "check_access_permission", user |-> u, code |-> 200,
         can_access |-> FALSE,
         message |-> "User not associated with any service center",
         redirect_to_payment |-> FALSE]
    ELSE LET can_access == can_access_service(centers[u.service_center], t)
         IN  [op |-> "check_access_permission", user |-> u, code |-> 200,
              can_access |-> can_access,
              message |->
                  IF can_access THEN "Access granted"
                  ELSE IF u.role = "centeradmin"
                       THEN "Subscription expired. Please renew to continue."
                       ELSE "Access denied. Please contact your center admin.",
              redirect_to_payment |->
                  (~can_access) /\ u.role = "centeradmin"]

\* a permission that looks up the service center before the role
has_permission_m(u, t) ==
    IF ~u.authenticated THEN FALSE
    ELSE IF ~HasCenter(u) THEN FALSE
    ELSE IF u.role = "admin" THEN TRUE
    ELSE can_access_service(centers[u.service_center], t)

\* HasActiveSubscriptionOrTrial.has_permission at time t
has_permission(u, t) ==
    IF ~u.authenticated THEN FALSE
    ELSE IF u.role = "admin" THEN TRUE
    ELSE IF ~HasCenter(u) THEN FALSE
    ELSE can_access_service(centers[u.service_center], t)

\* a request passes the middleware
gate_request(u, path) ==
    /\ resp' = process_request(u, path, now)
    /\ UNCHANGED <<now, ticks, centers, subs, txns, history, conn, shared, reserved,
                   otps, passwords>>

\* a request to the check-access endpoint (IsAuthenticated)
check_access_request(u) ==
    /\ u.authenticated
    /\ resp' = check_access_permission(u, now)
    /\ UNCHANGED <<now, ticks, centers, subs, txns, history, conn, shared, reserved,
                   otps, passwords>>

\* a view guarded by HasActiveSubscriptionOrTrial asks for the permission
permission_request(u) ==
    /\ resp' = [op |-> "has_permission", user |-> u,
                allowed |-> has_permission(u, now)]
    /\ UNCHANGED <<now, ticks, centers, subs, txns, history, conn, shared, reserved,
                   otps, passwords>>

-----------------------------------------------------------------------------
(* check_expired_subscriptions *)

\* the queryset expired_centers at time t: active centers, without those
\* whose subscription_valid_until is today or later, and without those
\* that have no subscription_valid_until and a trial_ends_at now or later
expired_centers(t) ==
    {c \in Tenants :
        /\ centers[c].exists
        /\ centers[c].is_active
        /\ ~(/\ centers[c].subscription_valid_until # None
              /\ centers[c].subscription_valid_until >= LocalDate(t))
        /\ ~(/\ centers[c].trial_ends_at # None
              /\ centers[c].trial_ends_at >= t
              /\ centers[c].subscription_valid_until = None)}

\* Command.handle: a run of the daily job, dry or not; the read of the
\* queryset and the saves are taken as one step
check_expired_subscriptions(dry_run) ==
    /\ LocksFree(None)
    /\ centers' = [c \in Tenants |->
                       IF c \in expired_centers(now) /\ ~dry_run
                       THEN [centers[c] EXCEPT !.is_active = FALSE]
                       ELSE centers[c]]
    /\ resp' = [op |-> "check_expired_subscriptions", dry_run |-> dry_run,
                found |-> expired_centers(now)]
    /\ UNCHANGED <<now, ticks, subs, txns, history, conn, shared, reserved,
                   otps, passwords>>

-----------------------------------------------------------------------------
(* forgot_password, reset_password *)

\* PasswordResetOTP.is_valid at time t: timezone.now() <= created_at + 10
\* minutes (the clock counts half hours of 30 minutes)
is_valid(o, t) == t * 30 <= (o.created_at * 30) + 10

\* a deleted PasswordResetOTP row
NoOtp == [user |-> "", otp |-> "", created_at |-> None, is_used |-> FALSE]

\* the rows PasswordResetOTP.objects.get(user=user, otp=otp) looks among
OtpMatches(email, otp) ==
    {i \in 1 .. Len(otps) : otps[i].user = email /\ otps[i].otp = otp}

\* forgot_password: a row with a fresh code for the user of that email, then
\* the mail, which may fail after the row is saved
forgot_password(email) ==
    /\ LocksFree(None)
    /\ \/ /\ email \notin Emails
          /\ resp' = [op |-> "forgot_password", status |-> 404,
                      email |-> email, otp |-> ""]
          /\ UNCHANGED otps
       \/ /\ email \in Emails
          /\ Len(otps) < MaxOtps
          /\ \E otp \in OtpCodes, sent \in BOOLEAN :
                 /\ otps' = Append(otps, [user |-> email, otp |-> otp,
                                          created_at |-> now,
                                          is_used |-> FALSE])
                 /\ resp' = [op |-> "forgot_password",
                             status |-> IF sent THEN 200 ELSE 500,
                             email |-> email, otp |-> otp]
    /\ UNCHANGED <<now, ticks, centers, subs, txns, history, conn, shared,
                   reserved, passwords>>

\* reset_password: the user by email, the row by (user, otp), the new
\* password, the row deleted; two matching rows make get() raise
\* MultipleObjectsReturned, which nothing catches
reset_password(email, otp, new_password) ==
    /\ LocksFree(None)
    /\ \/ /\ email \notin Emails
          /\ resp' = [op |-> "reset_password", status |-> 404,
                      email |-> email, otp |-> otp]
          /\ UNCHANGED <<otps, passwords>>
       \/ /\ email \in Emails
          /\ Cardinality(OtpMatches(email, otp)) = 0
          /\ resp' = [op |-> "reset_password", status |-> 400,
                      email |-> email, otp |-> otp]
          /\ UNCHANGED <<otps, passwords>>
       \/ /\ email \in Emails
          /\ Cardinality(OtpMatches(email, otp)) > 1
          /\ resp' = [op |-> "reset_password", status |-> 500,
                      email |-> email, otp |-> otp]
          /\ UNCHANGED <<otps, passwords>>
       \/ /\ email \in Emails
          /\ \E i \in OtpMatches(email, otp) :
                 /\ OtpMatches(email, otp) = {i}
                 /\ passwords' = [passwords EXCEPT ![email] = new_password]
                 /\ otps' = [otps EXCEPT ![i] = NoOtp]
                 /\ resp' = [op |-> "reset_password", status |-> 200,
                             email |-> email, otp |-> otp]
    /\ UNCHANGED <<now, ticks, centers, subs, txns, history, conn, shared,
                   reserved>>

-----------------------------------------------------------------------------
(* The system *)

Next ==
    \/ Tick
    \/ \E c \in Tenants : create_payment_order(c)
    \/ \E k \in Conns : verify_payment_and_extend(k)
    \/ \E c \in Tenants, m \in Durations : activate_subscription(c, m)
    \/ \E c \in Tenants : disable_service_center(c)
    \/ \E c \in Tenants : enable_service_center(c)

Spec == Init /\ [][Next]_vars

-----------------------------------------------------------------------------
(* The date logic and the gates on their own: the state of one service     *)
(* center and the time are drawn, and the methods are applied to them      *)

\* the trial ends on 2025-01-20 at 10:00 UTC, or at 20:00 UTC (which is
\* 01:30 of 2025-01-21 in Asia/Kolkata)
CalcTrialEnds ==
    {At(ToOrdinal(2025, 1, 20), 10), At(ToOrdinal(2025, 1, 20), 20)}

CalcValidUntil ==
    {None, ToOrdinal(2024, 1, 1), ToOrdinal(2025, 1, 15),
     ToOrdinal(2025, 1, 21), ToOrdinal(2025, 1, 31), ToOrdinal(2025, 6, 1)}

CalcInstants ==
    {At(ToOrdinal(2025, 1, 10), 9), At(ToOrdinal(2025, 1, 15), 19),
     At(ToOrdinal(2025, 1, 20), 19), At(ToOrdinal(2025, 1, 20), 20),
     At(ToOrdinal(2025, 1, 31), 12),
     At(ToOrdinal(2025, 3, 1), 9), At(ToOrdinal(2025, 3, 15), 9)}

CalcCenters ==
    {[exists |-> TRUE, is_active |-> a, trial_ends_at |-> te,
      subscription_started_at |->
          IF vu = None THEN None ELSE PlusDays(te, 0 - TrialDays),
      subscription_valid_until |-> vu] :
        a \in BOOLEAN, te \in CalcTrialEnds, vu \in CalcValidUntil}

InitCalc ==
    /\ now \in CalcInstants
    /\ ticks = 0
    /\ \E sc \in CalcCenters :
           centers = [c \in Tenants |-> IF c \in Registered THEN sc ELSE NoCenter]
    /\ subs = {}
    /\ txns = << >>
    /\ history = << >>
    /\ conn = [k \in Conns |-> IdleConn]
    /\ shared = {}
    /\ reserved = None
    /\ otps = << >>
    /\ passwords = [e \in Emails |-> "p0"]
    /\ resp = NoResp

\* the months an extension can be asked for
CalcMonths == {1, 12}

ExtendResult(c, months, d) ==
    [op |-> "extend_subscription", tenant |-> c, months |-> months, value |-> d]

\* service_center.extend_subscription(months) without a payment transaction,
\* once per behaviour
calc_extend(c, months) ==
    /\ centers[c].exists
    /\ history = << >>
    /\ LET e == extend_subscription(centers[c], c, now, months, None)
       IN  /\ centers' = [centers EXCEPT ![c] = e.center]
           /\ history' = Append(history, e.entry)
           /\ resp' = ExtendResult(c, months, e.new_end_date)
    /\ UNCHANGED <<now, ticks, subs, txns, conn, shared, reserved,
                   otps, passwords>>

\* the subscription status of center c is asked for
status_request(c) ==
    /\ centers[c].exists
    /\ resp' = get_subscription_status(centers[c], c, now)
    /\ UNCHANGED <<now, ticks, centers, subs, txns, history, conn, shared, reserved,
                   otps, passwords>>

NextCalc ==
    \/ \E c \in Tenants, m \in CalcMonths : calc_extend(c, m)
    \/ \E u \in Users, p \in Paths : gate_request(u, p)
    \/ \E u \in Users : check_access_request(u)
    \/ \E u \in Users : permission_request(u)
    \/ \E c \in Tenants : status_request(c)
    \/ \E dry_run \in BOOLEAN : check_expired_subscriptions(dry_run)

SpecCalc == InitCalc /\ [][NextCalc]_vars

-----------------------------------------------------------------------------
(* The admin dashboard, next to the payments *)

\* the answer of a dashboard view: a redirect to the list of service centers
Redirect(op, c) ==
    [op |-> op, code |-> 302, message |-> c, value |-> None]

\* the trial_ends_at a ServiceCenterForm can carry: left blank, or 30 days
\* after the registration
EditTrialEnds == {None, PlusDays(Start, 2 * TrialDays)}

\* service_center_edit, POST with a valid form: clean_trial_ends_at refuses a
\* value in the past, form.save() saves the instance, and
\* ServiceCenter.save() fills a blank trial_ends_at with now + 15 days
service_center_edit(c, te) ==
    /\ centers[c].exists
    /\ LocksFree(None)
    /\ te # None => te >= now
    /\ centers' = [centers EXCEPT ![c].trial_ends_at =
                       IF te = None THEN PlusDays(now, TrialDays) ELSE te]
    /\ resp' = Redirect("service_center_edit", c)
    /\ UNCHANGED <<now, ticks, subs, txns, history, conn, shared, reserved,
                   otps, passwords>>

\* the PaymentTransaction table once the rows of center c are deleted (a
\* deleted row keeps its place in the sequence, which stands for its
\* primary key)
TxnsAfterDelete(c) ==
    [i \in 1 .. Len(txns) |->
        IF txns[i].service_center = c
        THEN [txns[i] EXCEPT !.status = "deleted"] ELSE txns[i]]

\* the SubscriptionHistory table once the rows of center c are deleted
HistoryAfterDelete(c) ==
    LET Kept(e) == e.service_center # c
    IN  SelectSeq(history, Kept)

\* service_center_delete: service_center.delete() cascades to the
\* Subscription, PaymentTransaction and SubscriptionHistory rows of the
\* center (on_delete=CASCADE)
service_center_delete(c) ==
    /\ centers[c].exists
    /\ LocksFree(None)
    /\ centers' = [centers EXCEPT ![c] = NoCenter]
    /\ subs' = {r \in subs : r.service_center # c}
    /\ txns' = TxnsAfterDelete(c)
    /\ history' = HistoryAfterDelete(c)
    /\ resp' = Redirect("service_center_delete", c)
    /\ UNCHANGED <<now, ticks, conn, shared, reserved,
                   otps, passwords>>

NextDash ==
    \/ Tick
    \/ \E c \in Tenants : create_payment_order(c)
    \/ \E k \in Conns : verify_payment_and_extend(k)
    \/ \E c \in Tenants, te \in EditTrialEnds : service_center_edit(c, te)
    \/ \E c \in Tenants : service_center_delete(c)

SpecDash == Init /\ [][NextDash]_vars

-----------------------------------------------------------------------------
(* The daily job, next to the payments: no administrator disables a center *)

NextJob ==
    \/ Tick
    \/ \E c \in Tenants : create_payment_order(c)
    \/ \E k \in Conns : verify_payment_and_extend(k)
    \/ \E dry_run \in BOOLEAN : check_expired_subscriptions(dry_run)

SpecJob == Init /\ [][NextJob]_vars

-----------------------------------------------------------------------------
(* Two service centers and their payments *)

InitFrame ==
    /\ now = Start
    /\ ticks = 0
    /\ centers = [c \in Tenants |-> NewCenter(Start)]
    /\ subs = {TrialSubscription(c) : c \in Tenants}
    /\ txns = << >>
    /\ history = << >>
    /\ conn = [k \in Conns |-> IdleConn]
    /\ shared = {}
    /\ reserved = None
    /\ otps = << >>
    /\ passwords = [e \in Emails |-> "p0"]
    /\ resp = NoResp

NextFrame ==
    \/ Tick
    \/ \E c \in Tenants : create_payment_order(c)
    \/ \E k \in Conns : verify_payment_and_extend(k)
    \/ \E c \in Tenants : disable_service_center(c)
    \/ \E c \in Tenants : enable_service_center(c)

SpecFrame == InitFrame /\ [][NextFrame]_vars

-----------------------------------------------------------------------------
(* The password reset, over time *)

NextOtp ==
    \/ Tick
    \/ \E email \in Emails \cup {NoSuchEmail} : forgot_password(email)
    \/ \E email \in Emails \cup {NoSuchEmail}, otp \in OtpCodes,
          new_password \in NewPasswords :
              reset_password(email, otp, new_password)

SpecOtp == Init /\ [][NextOtp]_vars

-----------------------------------------------------------------------------
(* Properties *)

\* the SubscriptionHistory rows of h that name payment transaction i
EntriesOf(h, i) == {j \in 1 .. Len(h) : h[j].payment_transaction = i}

\* the order id o was issued and its transaction is completed
Completed(o) ==
    \E i \in 1 .. Len(txns) :
        txns[i].razorpay_order_id = o /\ txns[i].status = "completed"

\* connection k, which found its transaction pending, ends in this step
\* without a success
VerifyFails(k) ==
    /\ conn[k].op \in {"verify", "verify_commit"}
    /\ conn'[k].op = "idle"
    /\ resp'.op = "verify" /\ resp'.code # 200

\* C1 (idempotent confirmation): over every sequence of confirmations that
\* carry the same order id the extension is applied exactly once: a
\* completed transaction has exactly one history row and a pending one has
\* none; once a transaction is completed its row and its history row never
\* change again; and a confirmation that arrives for an order whose
\* transaction is completed fails and changes neither the service centers,
\* nor the history, nor the transactions.
C1_IdempotentConfirmation ==
    [][/\ \A i \in 1 .. Len(txns') :
            Cardinality(EntriesOf(history', i)) =
                IF txns'[i].status = "completed" THEN 1 ELSE 0
       /\ \A i \in 1 .. Len(txns) :
            txns[i].status = "completed" =>
                /\ txns'[i] = txns[i]
                /\ EntriesOf(history', i) = EntriesOf(history, i)
                /\ \A j \in EntriesOf(history, i) : history'[j] = history[j]
       /\ \A k \in Conns, o \in Orders :
            (Completed(o) /\ (verify_lookup(k, o) \/ verify_not_found(k, o)))
                => /\ resp'.op = "verify" /\ resp'.order = o
                   /\ resp'.code # 200
                   /\ centers' = centers
                   /\ history' = history
                   /\ txns' = txns]_vars

\* C1 witness: a confirmation was replayed for a completed transaction and
\* was refused; the transaction has its one history row
C1_Witness ==
    \E i \in 1 .. Len(txns) :
        /\ txns[i].status = "completed"
        /\ Cardinality(EntriesOf(history, i)) = 1
        /\ resp.op = "verify"
        /\ resp.order = txns[i].razorpay_order_id
        /\ resp.code # 200

\* C2 (concurrent confirmations of one transaction), as claimed: whatever
\* the interleaving of the requests that found the same transaction
\* pending, the extension is applied at most once, and a request that does
\* not succeed is answered that the transaction was not found or is
\* already processed.
C2_ConcurrentConfirmation ==
    [][/\ \A i \in 1 .. Len(txns') : Cardinality(EntriesOf(history', i)) <= 1
       /\ \A k \in Conns :
            VerifyFails(k) => resp' = VerifyNotFound(conn[k].order)]_vars

\* C3 (atomic confirmation): the step that completes a transaction also
\* saves the new expiry on its service center and appends the history row
\* that records it; a confirmation that fails after it found the
\* transaction pending leaves the transaction pending and the service
\* centers, the history and the transactions as they were; and every
\* completed transaction has a history row for its service center.
C3_AtomicConfirmation ==
    [][/\ \A i \in 1 .. Len(txns) :
            (txns[i].status # "completed" /\ txns'[i].status = "completed") =>
                LET c == txns[i].service_center
                    last == history'[Len(history')]
                IN  /\ Len(history') = Len(history) + 1
                    /\ last.payment_transaction = i
                    /\ last.service_center = c
                    /\ last.expires_at =
                           LocalMidnight(centers'[c].subscription_valid_until)
                    /\ centers'[c].subscription_valid_until # None
                    /\ centers'[c].subscription_valid_until >
                           centers[c].subscription_valid_until
                    /\ resp' = VerifyOk(txns[i].razorpay_order_id,
                                        centers'[c].subscription_valid_until)
       /\ \A k \in Conns :
            VerifyFails(k) =>
                /\ txns' = txns /\ centers' = centers
                /\ history' = history /\ subs' = subs
                /\ txns'[conn[k].txn].status = "pending"
       /\ \A i \in 1 .. Len(txns') :
            txns'[i].status = "completed" =>
                \E j \in 1 .. Len(history') :
                    /\ history'[j].payment_transaction = i
                    /\ history'[j].service_center = txns'[i].service_center]_vars

\* C3 witness: a confirmation that had marked its transaction completed and
\* extended the subscription failed at COMMIT; the transaction is pending
\* and has no history row
C3_Witness ==
    /\ resp.op = "verify"
    /\ resp.error = "database is locked"
    /\ \E i \in 1 .. Len(txns) :
        /\ txns[i].razorpay_order_id = resp.order
        /\ txns[i].status = "pending"
        /\ EntriesOf(history, i) = {}
    /\ \E k \in Conns : conn[k].op = "verify"

\* C4 (monotonic expiry), as claimed: no step moves the
\* subscription_valid_until of a service center, once set, to an earlier date.
C4_MonotonicExpiry ==
    [][\A c \in Tenants :
          centers[c].subscription_valid_until # None =>
              /\ centers'[c].subscription_valid_until # None
              /\ centers'[c].subscription_valid_until >=
                     centers[c].subscription_valid_until]_vars

\* C5 (the expiry changes only through a confirmed payment), as claimed:
\* every step that changes the subscription_valid_until of a service center
\* moves exactly one payment transaction of that center from pending to
\* completed.
C5_ExpiryOnlyByPayment ==
    [][\A c \in Tenants :
          centers'[c].subscription_valid_until #
                centers[c].subscription_valid_until =>
              Cardinality({i \in 1 .. Len(txns) :
                              /\ txns[i].service_center = c
                              /\ txns[i].status = "pending"
                              /\ txns'[i].status = "completed"}) = 1]_vars

\* C8 (rejected confirmation outcome), as claimed: a confirmation whose
\* order id matches no pending transaction is answered 404 "Transaction not
\* found or already processed".
C8_RejectedOutcome ==
    [][\A o \in Orders :
          (/\ PendingWithOrder(o) = {}
           /\ resp'.op = "verify" /\ resp'.order = o
           /\ \A k \in Conns : conn[k].order # o)
              => resp' = VerifyNotFound(o)]_vars

\* C6 (no lost time), as claimed: whenever an extension is recorded, the new
\* expiry is not before the start date the extension was computed from, and
\* that start date is not before the dates that granted access before the
\* call: subscription_valid_until if the subscription was active, and the
\* date of trial_ends_at if the trial was active (also when both were active
\* and the trial ended later).
C6_NoLostTime ==
    [][Len(history') = Len(history) + 1 =>
          LET c == history'[Len(history')].service_center
              sc == centers[c]
              base == ExtensionStart(sc, now)
          IN  /\ centers'[c].subscription_valid_until >= base
              /\ is_subscription_active(sc, now) =>
                     base >= sc.subscription_valid_until
              /\ is_trial_active(sc, now) =>
                     base >= UtcDate(sc.trial_ends_at)]_vars

\* C7 (extension base selection): extend_subscription(months) returns, and
\* saves as subscription_valid_until, base + months, where base is
\* subscription_valid_until if that date is not before today, else the date
\* of trial_ends_at if the trial has not ended, else today.  An expiry of
\* 2025-06-01 extended by 12 months on 2025-03-01 gives 2026-06-01; a trial
\* that ends on 2025-01-20, without a subscription, extended on 2025-01-10
\* gives 2026-01-20; an expiry of 2024-01-01 with the trial over, extended
\* on 2025-03-15, gives 2026-03-15.
C7_BaseSelection ==
    [][\A c \in Tenants :
          (/\ Len(history') = Len(history) + 1
           /\ resp'.op = "extend_subscription" /\ resp'.tenant = c) =>
              LET sc == centers[c]
                  vu == sc.subscription_valid_until
                  today == LocalDate(now)
                  base == IF vu # None /\ today <= vu THEN vu
                          ELSE IF now < sc.trial_ends_at
                               THEN UtcDate(sc.trial_ends_at)
                               ELSE today
                  m == resp'.months
                  new == resp'.value
              IN  /\ new = AddMonths(base, m)
                  /\ centers'[c].subscription_valid_until = new
                  /\ (/\ vu = ToOrdinal(2025, 6, 1)
                      /\ today = ToOrdinal(2025, 3, 1) /\ m = 12)
                         => new = ToOrdinal(2026, 6, 1)
                  /\ (/\ vu = None
                      /\ UtcDate(sc.trial_ends_at) = ToOrdinal(2025, 1, 20)
                      /\ today = ToOrdinal(2025, 1, 10) /\ m = 12)
                         => new = ToOrdinal(2026, 1, 20)
                  /\ (/\ vu = ToOrdinal(2024, 1, 1)
                      /\ today = ToOrdinal(2025, 3, 15) /\ m = 12)
                         => new = ToOrdinal(2026, 3, 15)]_vars

\* C7 witness: a center on trial until 2025-01-20, without a subscription,
\* was extended by 12 months on 2025-01-10 and is valid until 2026-01-20
C7_Witness ==
    /\ resp.op = "extend_subscription"
    /\ resp.months = 12
    /\ resp.value = ToOrdinal(2026, 1, 20)
    /\ LocalDate(now) = ToOrdinal(2025, 1, 10)
    /\ centers[resp.tenant].subscription_valid_until = ToOrdinal(2026, 1, 20)
    /\ UtcDate(centers[resp.tenant].trial_ends_at) = ToOrdinal(2025, 1, 20)
    /\ Len(history) = 1
    /\ history[1].previous_expires_at = LocalMidnight(ToOrdinal(2025, 1, 20))

\* C9 (role asymmetry): when can_access_service() of a service center is
\* false, the middleware answers a request for a gated path 402
\* SUBSCRIPTION_EXPIRED with requires_payment to the center admin of that
\* center and 403 ACCESS_DENIED without requires_payment to a staff member
\* of it, and check_access_permission answers can_access false with
\* redirect_to_payment to the center admin only; a staff member is never
\* offered payment by either.
C9_RoleAsymmetry ==
    /\ \A c \in Tenants :
        (centers[c].exists /\ ~can_access_service(centers[c], now)) =>
            /\ (/\ resp.op = "process_request"
                /\ resp.path = "gated"
                /\ resp.user.service_center = c
                /\ resp.user.role \in {"centeradmin", "staff"}) =>
                   /\ resp.user.role = "centeradmin" =>
                          /\ resp.code = 402
                          /\ resp.error_code = "SUBSCRIPTION_EXPIRED"
                          /\ resp.requires_payment
                   /\ resp.user.role = "staff" =>
                          /\ resp.code = 403
                          /\ resp.error_code = "ACCESS_DENIED"
                          /\ ~resp.requires_payment
            /\ (/\ resp.op = "check_access_permission"
                /\ resp.user.service_center = c
                /\ resp.user.role \in {"centeradmin", "staff"}) =>
                   /\ ~resp.can_access
                   /\ resp.redirect_to_payment = (resp.user.role = "centeradmin")
    /\ (resp.op = "process_request" /\ resp.user.role = "staff") =>
           resp.code # 402 /\ ~resp.requires_payment
    /\ (resp.op = "check_access_permission" /\ resp.user.role = "staff") =>
           ~resp.redirect_to_payment

\* C9 witness: a staff member of an enabled service center whose trial and
\* subscription are over asked for a gated path and was answered 403
\* ACCESS_DENIED
C9_Witness ==
    /\ resp.op = "process_request"
    /\ resp.path = "gated"
    /\ resp.user.role = "staff"
    /\ resp.code = 403
    /\ resp.error_code = "ACCESS_DENIED"
    /\ centers[resp.user.service_center].is_active
    /\ ~is_trial_active(centers[resp.user.service_center], now)
    /\ ~is_subscription_active(centers[resp.user.service_center], now)

\* C10 (disabled override): while is_active of a service center is false,
\* can_access_service() is false whatever the trial and subscription dates,
\* and neither gate lets a center admin or a staff member of that center in:
\* the middleware answers 402 to the center admin and 403 to the staff
\* member on a gated path, and check_access_permission answers can_access
\* false.
C10_DisabledOverride ==
    \A c \in Tenants :
        (centers[c].exists /\ ~centers[c].is_active) =>
            /\ ~can_access_service(centers[c], now)
            /\ (/\ resp.op = "process_request"
                /\ resp.path = "gated"
                /\ resp.user.service_center = c
                /\ resp.user.role \in {"centeradmin", "staff"}) =>
                   resp.code = IF resp.user.role = "centeradmin" THEN 402 ELSE 403
            /\ (/\ resp.op = "check_access_permission"
                /\ resp.user.service_center = c
                /\ resp.user.role \in {"centeradmin", "staff"}) =>
                   ~resp.can_access

\* C10 witness: the center admin of a disabled service center whose
\* subscription is still valid asked for a gated path and was answered 402
C10_Witness ==
    /\ resp.op = "process_request"
    /\ resp.path = "gated"
    /\ resp.user.role = "centeradmin"
    /\ resp.code = 402
    /\ ~centers[resp.user.service_center].is_active
    /\ is_subscription_active(centers[resp.user.service_center], now)

\* C11 (platform admin always allowed): whatever the state of the service
\* centers and whether or not the user is attached to one, a user with role
\* admin passes the middleware on every path, check_access_permission
\* answers can_access true without redirect_to_payment, and
\* HasActiveSubscriptionOrTrial grants the permission.
C11_AdminAlwaysAllowed ==
    /\ (resp.op = "process_request" /\ resp.user.role = "admin") =>
           resp = PassThrough(resp.user, resp.path)
    /\ (resp.op = "check_access_permission" /\ resp.user.role = "admin") =>
           /\ resp.can_access
           /\ ~resp.redirect_to_payment
           /\ resp.message = "Admin access granted"
    /\ (resp.op = "has_permission" /\ resp.user.role = "admin") =>
           resp.allowed

\* C11 witness: a platform admin attached to a service center that is
\* disabled, whose trial and subscription are over, asked for a gated path
\* and passed
C11_Witness ==
    /\ resp.op = "process_request"
    /\ resp.path = "gated"
    /\ resp.user.role = "admin"
    /\ resp.user.service_center \in Tenants
    /\ resp.code = None
    /\ centers[resp.user.service_center].exists
    /\ ~centers[resp.user.service_center].is_active
    /\ ~is_trial_active(centers[resp.user.service_center], now)
    /\ ~is_subscription_active(centers[resp.user.service_center], now)

\* C12 (no tenant): a center admin or staff member whose service center is
\* not set is answered 403 NO_SERVICE_CENTER by the middleware on a gated
\* path, can_access false without redirect_to_payment by
\* check_access_permission, and is refused by HasActiveSubscriptionOrTrial,
\* whatever the time and the state of the service centers.
C12_NoTenant ==
    (/\ resp.op \in {"process_request", "check_access_permission",
                     "has_permission"}
     /\ resp.user.role \in {"centeradmin", "staff"}
     /\ ~(\E c \in Tenants : resp.user.service_center = c /\ centers[c].exists))
        => /\ (resp.op = "process_request" /\ resp.path = "gated") =>
                  /\ resp.code = 403
                  /\ resp.error_code = "NO_SERVICE_CENTER"
                  /\ ~resp.requires_payment
           /\ resp.op = "check_access_permission" =>
                  /\ ~resp.can_access
                  /\ ~resp.redirect_to_payment
                  /\ resp.message = "User not associated with any service center"
           /\ resp.op = "has_permission" => ~resp.allowed

\* C12 witness: a center admin without a service center asked for a gated
\* path while a registered service center was enabled and on trial, and was
\* answered 403 NO_SERVICE_CENTER
C12_Witness ==
    /\ resp.op = "process_request"
    /\ resp.path = "gated"
    /\ resp.user.role = "centeradmin"
    /\ ~centers[resp.user.service_center].exists
    /\ resp.error_code = "NO_SERVICE_CENTER"
    /\ \E c \in Tenants : centers[c].exists /\ can_access_service(centers[c], now)

\* C13 (window boundaries): the subscription is reported active exactly
\* when subscription_valid_until is set and today's date is not after it
\* (active on the expiry date itself, inactive on the day after), and the
\* trial is reported active exactly when the current instant is strictly
\* before trial_ends_at (inactive at the instant trial_ends_at itself).
C13_WindowBoundaries ==
    resp.op = "get_subscription_status" =>
        LET sc == centers[resp.tenant]
            vu == sc.subscription_valid_until
            today == LocalDate(now)
        IN  /\ resp.is_subscription_active = (vu # None /\ today <= vu)
            /\ resp.is_trial_active =
                   (sc.trial_ends_at # None /\ now < sc.trial_ends_at)
            /\ (vu # None /\ vu = today) => resp.is_subscription_active
            /\ (vu # None /\ vu = today - 1) => ~resp.is_subscription_active
            /\ now = sc.trial_ends_at => ~resp.is_trial_active
            /\ now = sc.trial_ends_at - 2 => resp.is_trial_active

\* C13 witness: the status was asked for on the expiry date, at the very
\* instant the trial ended: the subscription is active, the trial is not
C13_Witness ==
    /\ resp.op = "get_subscription_status"
    /\ centers[resp.tenant].subscription_valid_until = LocalDate(now)
    /\ now = centers[resp.tenant].trial_ends_at
    /\ resp.is_subscription_active
    /\ ~resp.is_trial_active

\* C14 (trial end is immutable), as claimed: no step changes the
\* trial_ends_at of a service center that exists before and after it.
C14_TrialEndImmutable ==
    [][\A c \in Tenants :
          (centers[c].exists /\ centers'[c].exists) =>
              centers'[c].trial_ends_at = centers[c].trial_ends_at]_vars

\* C15 (a transaction is completed once): a completed transaction stays
\* completed and keeps its completed_at in every later step, so it never
\* returns to pending and is never completed a second time; completed_at is
\* null while the transaction is not completed and is set, to the time of
\* the confirmation, by the step that makes it completed.
C15_CompletedOnce ==
    [][/\ \A i \in 1 .. Len(txns) :
            /\ Len(txns') >= i
            /\ txns[i].status = "completed" =>
                   /\ txns'[i].status = "completed"
                   /\ txns'[i].completed_at = txns[i].completed_at
            /\ (txns[i].status # "completed" /\ txns'[i].status = "completed") =>
                   /\ txns[i].status = "pending"
                   /\ txns[i].completed_at = None
                   /\ txns'[i].completed_at = now
       /\ \A i \in 1 .. Len(txns') :
            txns'[i].status # "completed" => txns'[i].completed_at = None
       /\ \A i \in 1 .. Len(txns') :
            txns'[i].status = "completed" => txns'[i].completed_at # None]_vars

\* C15 witness: a transaction completed at an earlier time is still
\* completed, with the completed_at of its confirmation, next to a pending
\* one whose completed_at is null
C15_Witness ==
    /\ \E i \in 1 .. Len(txns) :
        /\ txns[i].status = "completed"
        /\ txns[i].completed_at # None
        /\ txns[i].completed_at < now
    /\ \E i \in 1 .. Len(txns) :
        txns[i].status = "pending" /\ txns[i].completed_at = None

\* C16 (one history entry per extension): in every state each completed
\* payment transaction is referenced by exactly one SubscriptionHistory row,
\* which has is_extension true and belongs to the service center of the
\* transaction, and every row with is_extension true references a completed
\* transaction.
C16_OneEntryPerExtension ==
    /\ \A i \in 1 .. Len(txns) :
        txns[i].status = "completed" =>
            /\ Cardinality(EntriesOf(history, i)) = 1
            /\ \A j \in EntriesOf(history, i) :
                /\ history[j].is_extension
                /\ history[j].service_center = txns[i].service_center
    /\ \A j \in 1 .. Len(history) :
        history[j].is_extension =>
            /\ history[j].payment_transaction \in 1 .. Len(txns)
            /\ txns[history[j].payment_transaction].status = "completed"

\* C16 witness: two payments of a service center were confirmed, and the
\* history has one row for each
C16_Witness ==
    /\ Len(txns) = 2
    /\ \A i \in 1 .. Len(txns) : txns[i].status = "completed"
    /\ Len(history) = 2
    /\ history[1].payment_transaction # history[2].payment_transaction

\* C17 (the audit log is append-only), as claimed: every step keeps each
\* SubscriptionHistory row that exists, unchanged and in its place, and no
\* step deletes a service center that has a history row.
C17_AppendOnlyHistory ==
    [][/\ Len(history') >= Len(history)
       /\ \A j \in 1 .. Len(history) : history'[j] = history[j]
       /\ \A c \in Tenants :
            (/\ centers[c].exists
             /\ \E j \in 1 .. Len(history) : history[j].service_center = c)
                => centers'[c].exists]_vars

\* C18 (the history records the base), as claimed: the SubscriptionHistory
\* row appended by an extension has previous_expires_at at the start date
\* the extension was computed from and expires_at at the new expiry,
\* whichever branch chose the start date, today's date included.
C18_HistoryRecordsBase ==
    [][Len(history') = Len(history) + 1 =>
          LET e == history'[Len(history')]
              c == e.service_center
          IN  /\ e.expires_at =
                     LocalMidnight(centers'[c].subscription_valid_until)
              /\ e.previous_expires_at =
                     LocalMidnight(ExtensionStart(centers[c], now))]_vars

\* C19 (the trial record is superseded on payment), as claimed: when a step
\* completes a payment transaction of a service center, no Subscription row
\* of that center is in status trial after the step.
C19_TrialSuperseded ==
    [][\A i \in 1 .. Len(txns) :
          (txns[i].status = "pending" /\ txns'[i].status = "completed") =>
              ~\E r \in subs' :
                  /\ r.service_center = txns[i].service_center
                  /\ r.status = "trial"]_vars

\* C20 (the subscription start is set once), as claimed: once
\* subscription_started_at of a service center is set, no step changes it.
C20_StartSetOnce ==
    [][\A c \in Tenants :
          centers[c].subscription_started_at # None =>
              centers'[c].subscription_started_at =
                  centers[c].subscription_started_at]_vars

\* C21 (invalid month count), as claimed: a request to activate a
\* subscription for zero or fewer months is answered with an error and
\* changes neither the service centers nor the history.
C21_InvalidMonths ==
    [][\A c \in Tenants, m \in Durations :
          (m <= 0 /\ activate_subscription(c, m)) =>
              /\ resp'.code # 200
              /\ centers' = centers
              /\ history' = history]_vars

\* C22 (status text precedence), as claimed: get_subscription_status says
\* "Account Disabled" whenever is_active is false, whatever the dates;
\* otherwise "Active (n days remaining)" if the subscription is active, else
\* "Trial (n days remaining)" if the trial is active, else "Subscription
\* Expired".
C22_StatusTextPrecedence ==
    resp.op = "get_subscription_status" =>
        LET sc == centers[resp.tenant]
        IN  resp.status_text =
                IF ~sc.is_active THEN "Account Disabled"
                ELSE IF is_subscription_active(sc, now)
                     THEN "Active (n days remaining)"
                ELSE IF is_trial_active(sc, now)
                     THEN "Trial (n days remaining)"
                ELSE "Subscription Expired"

\* C23 (days remaining), as claimed: get_subscription_status gives
\* days_remaining a value exactly when the subscription or the trial is
\* active; the value is never negative; it counts the days from today to
\* subscription_valid_until when the subscription is active, and to the
\* date of trial_ends_at when only the trial is.
C23_DaysRemaining ==
    resp.op = "get_subscription_status" =>
        LET sc == centers[resp.tenant]
            sub == is_subscription_active(sc, now)
            trial == is_trial_active(sc, now)
        IN  /\ resp.has_days = (sub \/ trial)
            /\ resp.has_days => resp.days_remaining >= 0
            /\ sub => resp.days_remaining =
                          sc.subscription_valid_until - LocalDate(now)
            /\ (~sub /\ trial) =>
                   resp.days_remaining =
                       UtcDate(sc.trial_ends_at) - LocalDate(now)

\* C24 (month-end clamping): the expiry returned by an extension of N
\* months lies in the month N months after the month of its start date; its
\* day of month is that of the start date when the target month has that
\* day and the last day of the target month otherwise; 2025-01-31 extended
\* by 1 month gives 2025-02-28.
C24_MonthEndClamp ==
    [][\A c \in Tenants :
          (/\ Len(history') = Len(history) + 1
           /\ resp'.op = "extend_subscription" /\ resp'.tenant = c) =>
              LET start == ExtensionStart(centers[c], now)
                  b == FromOrdinal(start)
                  r == FromOrdinal(resp'.value)
                  n == resp'.months
                  last == DaysInMonth(r.year, r.month)
              IN  /\ (r.year * 12) + r.month = (b.year * 12) + b.month + n
                  /\ r.day = IF b.day <= last THEN b.day ELSE last
                  /\ (start = ToOrdinal(2025, 1, 31) /\ n = 1) =>
                         resp'.value = ToOrdinal(2025, 2, 28)]_vars

\* C24 witness: a subscription valid until 2025-01-31 was extended by one
\* month and is valid until 2025-02-28
C24_Witness ==
    /\ resp.op = "extend_subscription"
    /\ resp.months = 1
    /\ resp.value = ToOrdinal(2025, 2, 28)
    /\ Len(history) = 1
    /\ history[1].previous_expires_at = LocalMidnight(ToOrdinal(2025, 1, 31))
    /\ centers[resp.tenant].subscription_valid_until = ToOrdinal(2025, 2, 28)

\* C25 (paying restores access), as claimed: when no administrator
\* disables service centers, the step that completes a payment transaction
\* leaves its service center with can_access_service() true, also when the
\* daily job ran between the end of the trial or subscription and the
\* payment.
C25_PayingRestoresAccess ==
    [][\A i \in 1 .. Len(txns) :
          (txns[i].status = "pending" /\ txns'[i].status = "completed") =>
              can_access_service(centers'[txns[i].service_center], now)]_vars

\* C28 (the expiry job agrees with the date logic), as claimed: a run of
\* check_expired_subscriptions sets is_active to false only on service
\* centers whose trial and subscription are both inactive at the time of
\* the run.
C28_JobAgreesWithDates ==
    [][\A c \in Tenants :
          (/\ resp'.op = "check_expired_subscriptions"
           /\ centers[c].is_active /\ ~centers'[c].is_active) =>
              /\ ~is_trial_active(centers[c], now)
              /\ ~is_subscription_active(centers[c], now)]_vars

\* C30 (password-reset OTP validity), as claimed: a request that changes
\* a user's password presents a code held by a PasswordResetOTP row of that
\* user which is_valid() at the time of the request, that is, created at
\* most 10 minutes earlier.
C30_OtpValidity ==
    [][\A e \in Emails :
          passwords'[e] # passwords[e] =>
              \E i \in 1 .. Len(otps) :
                  /\ otps[i].user = e
                  /\ otps[i].otp = resp'.otp
                  /\ is_valid(otps[i], now)]_vars

\* C26 (no lost payment under interleaving), as claimed: confirmations of
\* two distinct pending transactions of one service center both take
\* effect in every interleaving: a request that found its transaction
\* pending ends without a success only if the other request in flight
\* carries the same order id.
C26_NoLostPayment ==
    [][\A k \in Conns :
          VerifyFails(k) =>
              \E j \in Conns \ {k} :
                  /\ conn[j].op \in {"verify", "verify_commit"}
                  /\ conn[j].order = conn[k].order]_vars

\* C27 (frame of a confirmation): the step that completes a transaction
\* changes, of the PaymentTransaction table, only that row; of the service
\* centers, only subscription_valid_until and subscription_started_at of
\* the center that owns the transaction, whose is_active and trial_ends_at
\* stay as they are; it appends one history row, for that center and that
\* transaction, and leaves the Subscription rows, every other service
\* center and every other transaction unchanged.
C27_ConfirmationFrame ==
    [][\A i \in 1 .. Len(txns) :
          (txns[i].status = "pending" /\ txns'[i].status = "completed") =>
              LET c == txns[i].service_center
              IN  /\ Len(txns') = Len(txns)
                  /\ \A j \in 1 .. Len(txns) : j # i => txns'[j] = txns[j]
                  /\ \A d \in Tenants \ {c} : centers'[d] = centers[d]
                  /\ centers'[c] =
                         [centers[c] EXCEPT
                             !.subscription_valid_until =
                                 centers'[c].subscription_valid_until,
                             !.subscription_started_at =
                                 centers'[c].subscription_started_at]
                  /\ Len(history') = Len(history) + 1
                  /\ SubSeq(history', 1, Len(history)) = history
                  /\ history'[Len(history')].service_center = c
                  /\ history'[Len(history')].payment_transaction = i
                  /\ subs' = subs]_vars

\* a confirmation succeeded for a disabled service center while the other
\* service center had a pending transaction and was enabled
C27_Witness ==
    /\ resp.op = "verify" /\ resp.code = 200
    /\ \E i, j \in 1 .. Len(txns) :
          /\ txns[i].status = "completed"
          /\ txns[i].razorpay_order_id = resp.order
          /\ ~centers[txns[i].service_center].is_active
          /\ txns[j].status = "pending"
          /\ txns[j].service_center # txns[i].service_center
          /\ centers[txns[j].service_center].is_active

\* C29 (the two gates agree): for every authenticated user, at every time
\* and state of the service centers, the middleware on a gated URL lets the
\* request through exactly when check_access_permission reports can_access
\* true, answers 402 exactly when it reports redirect_to_payment true, and
\* answers 403 exactly when it reports neither.
C29_GatesAgree ==
    \A u \in Users :
        u.authenticated =>
            LET m == process_request(u, "gated", now)
                a == check_access_permission(u, now)
            IN  /\ (m.code = None) <=> a.can_access
                /\ (m.code = 402) <=> a.redirect_to_payment
                /\ (m.code = 403) <=>
                       (~a.can_access /\ ~a.redirect_to_payment)
                /\ m.code \in {None, 402, 403}

\* the middleware answered 402 on a gated URL to a center admin whose
\* service center is enabled and out of trial and subscription, while a
\* member of the same center is answered 403 and the platform admin passes
C29_Witness ==
    /\ resp.op = "process_request" /\ resp.path = "gated"
    /\ resp.code = 402
    /\ centers[resp.user.service_center].is_active
    /\ check_access_permission(resp.user, now).redirect_to_payment
    /\ \E u \in Users :
          /\ u.role = "staff"
          /\ u.service_center = resp.user.service_center
          /\ process_request(u, "gated", now).code = 403
          /\ ~check_access_permission(u, now).can_access
    /\ \E u \in Users :
          /\ u.role = "admin"
          /\ process_request(u, "gated", now).code = None
          /\ check_access_permission(u, now).can_access

====
